---- MODULE Spec2Model ----
(***************************************************************************)
(* Model of src/main.cpp of ESP32_OTA_Test: the setup()/loop() context and *)
(* the OTA task (ota_task, performFirmwareUpdate) with the HTTP endpoints  *)
(* and the Update flashing library as their environment.                   *)
(***************************************************************************)
EXTENDS Integers, Sequences, FiniteSets, TLC

(* ------------------------------ bounds --------------------------------- *)
\* longest response body of the version endpoint, in characters
MaxLen == 2
\* largest content length the binary endpoint declares, in bytes
MaxSize == 3
\* bytes the OTA partition can hold
FlashCapacity == 2

(* --------------------------- program constants -------------------------- *)
HTTP_CODE_OK == 200
updateInterval == 30000
portTICK_PERIOD_MS == 1

\* status codes http.GET() may return: OK, a non-OK status, a transport error
HttpCodes == {HTTP_CODE_OK, 404, -1}
\* http.getSize(): -1 when the length is unknown
Sizes == -1..MaxSize
\* bytes the firmware stream really delivers (may exceed the declared size)
StreamLens == 0..(MaxSize + 1)

(* ------------------------------ strings -------------------------------- *)
Chars == {" ", "v", "V"}
Strings == UNION {[1..n -> Chars] : n \in 0..MaxLen}
\* FIRMWARE_VERSION build flag values the model is run with
CurrentVersions == {<<"v">>, <<"V">>, <<"v", "V">>}

isspace(c) == c = " "

RECURSIVE TrimLeft(_)
TrimLeft(s) ==
    IF s # <<>> /\ isspace(Head(s)) THEN TrimLeft(Tail(s)) ELSE s

RECURSIVE TrimRight(_)
TrimRight(s) ==
    IF s # <<>> /\ isspace(s[Len(s)])
    THEN TrimRight(SubSeq(s, 1, Len(s) - 1))
    ELSE s

\* String::trim(): strips leading and trailing whitespace, keeps inner
trim(s) == TrimRight(TrimLeft(s))

\* String::equals(): exact, case-sensitive comparison
equals(a, b) == a = b

(* ------------------------------- state --------------------------------- *)
VARIABLES
    currentVersion,  \* const char* currentVersion
    mainPc,          \* position of setup()/loop()
    led,             \* level of ledPin
    wifi,            \* WiFi.status() == WL_CONNECTED
    otaTasks,        \* tasks created by xTaskCreate
    otaPc,           \* position of ota_task
    activeCycles,    \* update cycles begun and not yet at the inter-cycle delay
    outcome,         \* how the last cycle ended
    vCode,           \* httpCode of the version GET of this cycle
    versionBody,     \* body the version endpoint answered with
    remoteVersion,   \* String remoteVersion after trim()
    vConn,           \* the version HTTPClient holds an open connection
    vEnds,           \* calls of http.end() on the version client this cycle
    fConn,           \* the firmware HTTPClient holds an open connection
    fEnds,           \* calls of http.end() on the firmware client this cycle
    vCloses,         \* times the version connection was closed this cycle
    fCloses,         \* times the firmware connection was closed this cycle
    fwRequests,      \* firmware GETs issued this cycle
    fCode,           \* httpCode of the firmware GET of this cycle
    contentLength,   \* int contentLength = http.getSize()
    streamLeft,      \* bytes the firmware stream has still to deliver
    written,         \* size_t written, the value writeStream returned
    flashWrites,     \* bytes written to flash this cycle
    beginResult,     \* what Update.begin() returned this cycle
    updSize,         \* Update: size reserved by begin()
    updProgress,     \* Update: bytes written to flash
    updError,        \* Update: an error is latched
    endResult,       \* what Update.end() returned this cycle
    finishedResult,  \* what Update.isFinished() returned this cycle
    calls,           \* Update/ESP calls of this cycle, in order
    errorLogged,     \* Update.getError() was logged this cycle
    restartCount,    \* invocations of ESP.restart()
    waited           \* ms spent in vTaskDelay since the last cycle ended

mainVars == <<mainPc, led, wifi, otaTasks>>
versionVars == <<vCode, versionBody, remoteVersion>>
connVars == <<vConn, vEnds, fConn, fEnds, vCloses, fCloses>>
fwVars == <<fwRequests, fCode, contentLength, streamLeft, written, flashWrites>>
updVars == <<updSize, updProgress, updError, beginResult, endResult,
            finishedResult, calls, errorLogged>>
vars == <<currentVersion, mainVars, otaPc, activeCycles, outcome, versionVars,
          connVars, fwVars, updVars, restartCount, waited>>

restarted == restartCount > 0

Init ==
    /\ currentVersion \in CurrentVersions
    /\ mainPc = "setup_wait"
    /\ led = "LOW"
    /\ wifi = FALSE
    /\ otaTasks = 0
    /\ otaPc = "none"
    /\ activeCycles = 0
    /\ outcome = "none"
    /\ vCode = 0
    /\ versionBody = <<>>
    /\ remoteVersion = <<>>
    /\ vConn = FALSE
    /\ vEnds = 0
    /\ fConn = FALSE
    /\ fEnds = 0
    /\ vCloses = 0
    /\ fCloses = 0
    /\ fwRequests = 0
    /\ fCode = 0
    /\ contentLength = 0
    /\ streamLeft = 0
    /\ written = 0
    /\ flashWrites = 0
    /\ beginResult = "none"
    /\ updSize = 0
    /\ updProgress = 0
    /\ updError = FALSE
    /\ endResult = "none"
    /\ finishedResult = "none"
    /\ calls = <<>>
    /\ errorLogged = FALSE
    /\ restartCount = 0
    /\ waited = 0


(* ---------------------- the Update flashing library --------------------- *)
\* Update.begin(size): fails when the partition cannot hold size bytes
UpdateBeginResults(size) ==
    IF size <= FlashCapacity THEN {TRUE} ELSE {FALSE}

\* bytes Update.writeStream() has still to copy
UpdateRemaining == updSize - updProgress

\* Update.end(): fails on a latched error or an incomplete image; a complete
\* image may still fail its verification
UpdateEndResults(size, progress, err) ==
    IF err \/ progress # size THEN {FALSE} ELSE {TRUE, FALSE}

\* Update.isFinished(), as read by the caller after end()
UpdateIsFinishedResults == BOOLEAN

(* ------------------------- decisions of the code ------------------------ *)
toLower(c) == IF c = "V" THEN "v" ELSE c
\* String::equalsIgnoreCase()
equalsIgnoreCase(a, b) ==
    /\ Len(a) = Len(b)
    /\ \A i \in 1..Len(a) : toLower(a[i]) = toLower(b[i])

\* mutant: the tokens are compared ignoring case
VersionDecisionIgnoreCase(code, body, cur) ==
    IF code = HTTP_CODE_OK
    THEN IF equalsIgnoreCase(trim(body), cur)
         THEN "UpToDate" ELSE "UpdateAvailable"
    ELSE "CheckFailed"

\* mutant: the status test is httpCode > 0
VersionDecisionPositiveCode(code, body, cur) ==
    IF code > 0
    THEN IF equals(trim(body), cur) THEN "UpToDate" ELSE "UpdateAvailable"
    ELSE "CheckFailed"

\* ota_task: what the answer of the version endpoint leads to
VersionDecision(code, body, cur) ==
    IF code = HTTP_CODE_OK
    THEN IF equals(trim(body), cur) THEN "UpToDate" ELSE "UpdateAvailable"
    ELSE "CheckFailed"

\* mutant: the size test is contentLength >= 0
DownloadDecisionAcceptZero(code, size) ==
    IF code = HTTP_CODE_OK
    THEN IF size >= 0 THEN "Begin" ELSE "DownloadFailed"
    ELSE "DownloadFailed"

\* performFirmwareUpdate: what the answer of the binary endpoint leads to
DownloadDecision(code, size) ==
    IF code = HTTP_CODE_OK
    THEN IF size > 0 THEN "Begin" ELSE "DownloadFailed"
    ELSE "DownloadFailed"

\* mutant: Update.begin(UPDATE_SIZE_UNKNOWN) reserves the whole partition
BeginSizeUnknown(size) == FlashCapacity

\* performFirmwareUpdate: the size handed to Update.begin()
BeginSize(size) == size

\* mutant: the result of Update.begin() is not tested
CanProceedAlways(canBegin) == TRUE

\* performFirmwareUpdate: if (canBegin)
CanProceed(canBegin) == canBegin

\* mutant: Update.isFinished() is not tested before the restart
FinalizeDecisionIgnoreFinished(endOk, finished) ==
    IF endOk THEN "Restart" ELSE "FinalizeFailed"

\* mutant: ESP.restart() is left out
FinalizeDecisionNeverRestart(endOk, finished) == "FinalizeFailed"

\* mutant: the restart does not depend on the result of Update.end()
FinalizeDecisionAlwaysRestart(endOk, finished) == "Restart"

\* performFirmwareUpdate: what the results of end() and isFinished() lead to
FinalizeDecision(endOk, finished) ==
    IF endOk
    THEN IF finished THEN "Restart" ELSE "FinalizeFailed"
    ELSE "FinalizeFailed"

\* mutant: a short write returns before Update.end()
EndAttemptedOnlyIfComplete(wr, declared) == wr = declared

\* performFirmwareUpdate: Update.end() is called whatever writeStream returned
EndAttempted(wr, declared) == TRUE

\* performFirmwareUpdate: the branches that log Update.getError()
LogsDiagnostic(endOk, finished) == ~ endOk

\* mutant: the restart is only requested and the function returns
AfterRestartPcReturns == "delay"

\* ESP.restart() does not return: the task goes no further
AfterRestartPc == "rebooted"

\* HTTPClient::end(): closes the connection if one is open
Closed(open) == IF open THEN 1 ELSE 0

\* mutant: the version connection is left open during the update
ClosesVersionBeforeUpdateNot == FALSE

\* ota_task: http.end() before performFirmwareUpdate()
ClosesVersionBeforeUpdate == TRUE

\* mutant: the delay doubles after a cycle that ended in an error
DelayTicksBackoff(out) ==
    IF out = "UpToDate"
    THEN updateInterval \div portTICK_PERIOD_MS
    ELSE (2 * updateInterval) \div portTICK_PERIOD_MS

\* ota_task: the argument of vTaskDelay, in ticks
DelayTicks(out) == updateInterval \div portTICK_PERIOD_MS

(* --------------------------- setup() and loop() ------------------------- *)
\* the access point accepts the station
WifiConnect ==
    /\ mainPc = "setup_wait" /\ ~wifi
    /\ wifi' = TRUE
    /\ UNCHANGED <<currentVersion, mainPc, led, otaTasks, otaPc, activeCycles,
                   outcome, versionVars, connVars, fwVars, updVars, restartCount, waited>>

\* setup(): one pass of the wait loop while the link is down
SetupPoll ==
    /\ mainPc = "setup_wait" /\ ~wifi
    /\ led' = IF led = "LOW" THEN "HIGH" ELSE "LOW"
    /\ UNCHANGED <<currentVersion, mainPc, wifi, otaTasks, otaPc, activeCycles,
                   outcome, versionVars, connVars, fwVars, updVars, restartCount, waited>>

\* mutant: the task is created without waiting for the link
SetupMayProceedAlways == TRUE

\* setup(): while (WiFi.status() != WL_CONNECTED) is left
SetupMayProceed == wifi

\* setup(): the link is up; LED off, xTaskCreate(ota_task), enter loop()
SetupConnected ==
    /\ mainPc = "setup_wait" /\ SetupMayProceed
    /\ led' = "LOW"
    /\ otaTasks' = otaTasks + 1
    /\ otaPc' = "check"
    /\ mainPc' = "loop_high"
    /\ UNCHANGED <<currentVersion, wifi, activeCycles, outcome, versionVars,
                   connVars, fwVars, updVars, restartCount, waited>>

\* mutant: loop() waits until the update task is between two cycles
LoopHighWaitsForTask ==
    /\ mainPc = "loop_high" /\ ~restarted
    /\ otaPc \in {"delay", "check"}
    /\ led' = "HIGH"
    /\ mainPc' = "loop_low"
    /\ UNCHANGED <<currentVersion, wifi, otaTasks, otaPc, activeCycles, outcome,
                   versionVars, connVars, fwVars, updVars, restartCount, waited>>

\* loop(): digitalWrite(ledPin, HIGH); delay(1000)
LoopHigh ==
    /\ mainPc = "loop_high" /\ ~restarted
    /\ led' = "HIGH"
    /\ mainPc' = "loop_low"
    /\ UNCHANGED <<currentVersion, wifi, otaTasks, otaPc, activeCycles, outcome,
                   versionVars, connVars, fwVars, updVars, restartCount, waited>>

\* mutant: loop() opens the version connection itself
LoopLowInlineCheck ==
    /\ mainPc = "loop_low" /\ ~restarted
    /\ led' = "LOW"
    /\ mainPc' = "loop_high"
    /\ vConn' = TRUE
    /\ UNCHANGED <<currentVersion, wifi, otaTasks, otaPc, activeCycles, outcome,
                   versionVars, vEnds, fConn, fEnds, vCloses, fCloses, fwVars,
                   updVars, restartCount, waited>>

\* loop(): digitalWrite(ledPin, LOW); delay(1000); "Cycle complete."
LoopLow ==
    /\ mainPc = "loop_low" /\ ~restarted
    /\ led' = "LOW"
    /\ mainPc' = "loop_high"
    /\ UNCHANGED <<currentVersion, wifi, otaTasks, otaPc, activeCycles, outcome,
                   versionVars, connVars, fwVars, updVars, restartCount, waited>>

(* -------------------------------- ota_task ------------------------------ *)
\* mutant: the task returns from its loop when a cycle ends in an error
EndCycleExitOnError(out) ==
    /\ outcome' = out
    /\ vConn' = FALSE
    /\ vEnds' = vEnds + 1
    /\ vCloses' = vCloses + Closed(vConn)
    /\ waited' = 0
    /\ activeCycles' = activeCycles - 1
    /\ otaPc' = IF out = "UpToDate" THEN "delay" ELSE "exited"

\* mutant: the cycle ends without http.end()
EndCycleNoClose(out) ==
    /\ outcome' = out
    /\ UNCHANGED <<vConn, vEnds, vCloses>>
    /\ waited' = 0
    /\ activeCycles' = activeCycles - 1
    /\ otaPc' = "delay"

\* the cycle reaches its end: http.end() of the version client, then vTaskDelay
EndCycle(out) ==
    /\ outcome' = out
    /\ vConn' = FALSE
    /\ vEnds' = vEnds + 1
    /\ vCloses' = vCloses + Closed(vConn)
    /\ waited' = 0
    /\ activeCycles' = activeCycles - 1
    /\ otaPc' = "delay"

\* mutant: a check is also triggered while a download or a write is running
CycleMayStartReentrant == otaPc \in {"check", "f_get", "writing"}

\* for(;;): the body is entered from the top, when the task is created and
\* each time vTaskDelay returns
CycleMayStart == otaPc = "check"

\* top of the for(;;) body: a new cycle opens the version connection and
\* sends the GET
OtaCheckStart ==
    /\ CycleMayStart
    /\ otaPc' = "v_get"
    /\ activeCycles' = activeCycles + 1
    /\ vCode' = 0 /\ versionBody' = <<>> /\ remoteVersion' = <<>>
    /\ vConn' = TRUE /\ vEnds' = 0 /\ fEnds' = 0
    /\ vCloses' = 0 /\ fCloses' = 0 /\ errorLogged' = FALSE
    /\ fwRequests' = 0 /\ fCode' = 0 /\ contentLength' = 0
    /\ streamLeft' = 0 /\ written' = 0 /\ flashWrites' = 0
    /\ beginResult' = "none" /\ endResult' = "none"
    /\ finishedResult' = "none" /\ calls' = <<>>
    /\ UNCHANGED <<currentVersion, mainVars, outcome, fConn, updSize,
                   updProgress, updError, restartCount, waited>>

\* the version GET returns: compare, then either end the cycle or close the
\* version connection and enter performFirmwareUpdate up to its GET
OtaVersionResponse(code, body) ==
    /\ otaPc = "v_get"
    /\ vCode' = code
    /\ versionBody' = body
    /\ remoteVersion' = IF code = HTTP_CODE_OK THEN trim(body) ELSE <<>>
    /\ LET d == VersionDecision(code, body, currentVersion) IN
       IF d = "UpdateAvailable"
       THEN /\ vConn' = (vConn /\ ~ ClosesVersionBeforeUpdate)
            /\ vEnds' = vEnds + Closed(ClosesVersionBeforeUpdate)
            /\ vCloses' = vCloses + Closed(vConn /\ ClosesVersionBeforeUpdate)
            /\ fConn' = TRUE
            /\ fwRequests' = fwRequests + 1
            /\ otaPc' = "f_get"
            /\ UNCHANGED <<outcome, activeCycles, fEnds, fCloses, waited>>
       ELSE /\ EndCycle(d)
            /\ UNCHANGED <<fConn, fEnds, fCloses, fwRequests>>
    /\ UNCHANGED <<currentVersion, mainVars, fCode, contentLength, streamLeft,
                   written, flashWrites, updVars, restartCount>>

\* the firmware GET returns: check status and size, Update.begin(), and start
\* Update.writeStream(); on any failure http.end() and back to ota_task
OtaFirmwareResponse(code, size, bodyLen) ==
    /\ otaPc = "f_get"
    /\ fCode' = code
    /\ contentLength' = IF code = HTTP_CODE_OK THEN size ELSE 0
    /\ IF DownloadDecision(code, size) = "Begin"
       THEN \E canBegin \in UpdateBeginResults(BeginSize(size)) :
              /\ beginResult' = IF canBegin THEN "ok" ELSE "fail"
              /\ IF CanProceed(canBegin)
                 THEN /\ updSize' = BeginSize(size)
                      /\ updProgress' = 0
                      /\ updError' = FALSE
                      /\ streamLeft' = bodyLen
                      /\ calls' = calls \o <<"begin", "writeStream">>
                      /\ otaPc' = "writing"
                      /\ UNCHANGED <<outcome, activeCycles, connVars, waited>>
                 ELSE /\ calls' = calls \o <<"begin">>
                      /\ fConn' = FALSE /\ fEnds' = fEnds + 1
                      /\ fCloses' = fCloses + Closed(fConn)
                      /\ EndCycle("InsufficientSpace")
                      /\ UNCHANGED <<updSize, updProgress, updError, streamLeft>>
       ELSE /\ fConn' = FALSE /\ fEnds' = fEnds + 1
            /\ fCloses' = fCloses + Closed(fConn)
            /\ EndCycle("DownloadFailed")
            /\ UNCHANGED <<updSize, updProgress, updError, streamLeft, calls,
                           beginResult>>
    /\ UNCHANGED <<currentVersion, mainVars, versionVars, fwRequests, written,
                   flashWrites, endResult, finishedResult, errorLogged,
                   restartCount>>

\* Update.writeStream(): one more byte of the stream goes to flash
OtaWriteChunk ==
    /\ otaPc = "writing" /\ ~updError
    /\ UpdateRemaining > 0 /\ streamLeft > 0
    /\ updProgress' = updProgress + 1
    /\ flashWrites' = flashWrites + 1
    /\ streamLeft' = streamLeft - 1
    /\ UNCHANGED <<currentVersion, mainVars, otaPc, activeCycles, outcome,
                   versionVars, connVars, fwRequests, fCode, contentLength,
                   written, updSize, updError, beginResult, endResult,
                   finishedResult, calls, errorLogged, restartCount, waited>>

\* Update.writeStream(): a flash write fails and the library latches an error
OtaWriteError ==
    /\ otaPc = "writing" /\ ~updError
    /\ UpdateRemaining > 0 /\ streamLeft > 0
    /\ updError' = TRUE
    /\ UNCHANGED <<currentVersion, mainVars, otaPc, activeCycles, outcome,
                   versionVars, connVars, fwVars, updSize, updProgress,
                   beginResult, endResult, finishedResult, calls, errorLogged,
                   restartCount, waited>>

\* Update.writeStream() returns; Update.end(), Update.isFinished(), and either
\* ESP.restart() or http.end() and back to ota_task
OtaFinalize ==
    /\ otaPc = "writing"
    /\ updError \/ UpdateRemaining = 0 \/ streamLeft = 0
    /\ written' = updProgress
    /\ IF EndAttempted(updProgress, contentLength)
       THEN \E endOk \in UpdateEndResults(updSize, updProgress, updError) :
            \E finished \in UpdateIsFinishedResults :
              /\ endResult' = IF endOk THEN "ok" ELSE "fail"
              /\ finishedResult' =
                   IF endOk THEN (IF finished THEN "ok" ELSE "fail") ELSE "none"
              /\ errorLogged' = LogsDiagnostic(endOk, finished)
              /\ IF FinalizeDecision(endOk, finished) = "Restart"
                 THEN /\ calls' = calls \o <<"end", "isFinished", "restart">>
                      /\ restartCount' = restartCount + 1
                      /\ outcome' = "Reboot"
                      /\ otaPc' = AfterRestartPc
                      /\ UNCHANGED <<activeCycles, connVars, waited>>
                 ELSE /\ calls' = calls \o
                           (IF endOk THEN <<"end", "isFinished">> ELSE <<"end">>)
                      /\ fConn' = FALSE /\ fEnds' = fEnds + 1
                      /\ fCloses' = fCloses + Closed(fConn)
                      /\ EndCycle("FinalizeFailed")
                      /\ UNCHANGED restartCount
       ELSE /\ fConn' = FALSE /\ fEnds' = fEnds + 1
            /\ fCloses' = fCloses + Closed(fConn)
            /\ EndCycle("PartialWrite")
            /\ UNCHANGED <<endResult, finishedResult, errorLogged, calls,
                           restartCount>>
    /\ updSize' = 0 /\ updProgress' = 0 /\ updError' = FALSE
    /\ UNCHANGED <<currentVersion, mainVars, versionVars, fwRequests, fCode,
                   contentLength, streamLeft, flashWrites, beginResult>>

\* vTaskDelay(updateInterval / portTICK_PERIOD_MS) elapses
OtaDelayExpire ==
    /\ otaPc = "delay"
    /\ waited' = waited + DelayTicks(outcome) * portTICK_PERIOD_MS
    /\ otaPc' = "check"
    /\ UNCHANGED <<currentVersion, mainVars, activeCycles, outcome, versionVars,
                   connVars, fwVars, updVars, restartCount>>

OtaNext ==
    \/ OtaCheckStart
    \/ \E code \in HttpCodes, body \in Strings : OtaVersionResponse(code, body)
    \/ \E code \in HttpCodes, size \in Sizes, bodyLen \in StreamLens :
         OtaFirmwareResponse(code, size, bodyLen)
    \/ OtaWriteChunk
    \/ OtaWriteError
    \/ OtaFinalize
    \/ OtaDelayExpire

MainNext ==
    \/ WifiConnect
    \/ SetupPoll
    \/ SetupConnected
    \/ LoopHigh
    \/ LoopLow

Next == OtaNext \/ MainNext

Spec == Init /\ [][Next]_vars

\* the transport's timeouts and the FreeRTOS scheduler let every blocked step
\* of the update task complete
LiveSpec == Spec /\ WF_vars(OtaNext)

\* loopTask is scheduled whenever it is ready, whatever the update task does
LoopLiveSpec == Spec /\ WF_vars(MainNext)

(* ------------------------------- properties ----------------------------- *)
InCalls(c) == \E i \in 1..Len(calls) : calls[i] = c

Spaces(n) == [i \in 1..n |-> " "]
\* t is r without its leading and trailing whitespace
IsTrimOf(t, r) ==
    /\ t = <<>> \/ (t[1] # " " /\ t[Len(t)] # " ")
    /\ \E a \in 0..Len(r), b \in 0..Len(r) : r = Spaces(a) \o t \o Spaces(b)

\* the outcomes after which the task goes on to the next cycle
NonTerminalOutcomes ==
    {"UpToDate", "CheckFailed", "DownloadFailed", "InsufficientSpace",
     "FinalizeFailed"}

\* the update task rests between two cycles
Idle == otaPc \in {"delay", "check"}

\* the finalize step (Update.end() and the Update.isFinished() test that
\* follows it) reported a finished update
FinalizeSucceeded == endResult = "ok" /\ finishedResult = "ok"

\* C1: ESP.restart() has been invoked if and only if the finalize step of the
\* cycle reported success; after a cycle that ended on any failure branch
\* (check failed, up to date, download failed, begin failed, finalize failed)
\* no restart has been invoked.
C1_RestartIffFinalizeSuccess ==
    /\ restarted <=> FinalizeSucceeded
    /\ outcome \in NonTerminalOutcomes => restartCount = 0
    /\ outcome = "Reboot" <=> restarted

C1_Witness == restarted /\ FinalizeSucceeded /\ InCalls("restart")

\* C2: Update.writeStream() and Update.end() are called only after
\* Update.begin() returned success in the same session; when begin() fails the
\* session ends InsufficientSpace with neither of them called and no byte
\* written to flash.
C2_FlashOnlyAfterBegin ==
    /\ \A i \in 1..Len(calls) :
          calls[i] \in {"writeStream", "end"} =>
             /\ beginResult = "ok"
             /\ \E j \in 1..(i - 1) : calls[j] = "begin"
    /\ flashWrites > 0 => beginResult = "ok"
    /\ beginResult = "fail" =>
          /\ calls = <<"begin">>
          /\ flashWrites = 0
          /\ outcome = "InsufficientSpace"
          /\ Idle

C2_Witness ==
    beginResult = "fail" /\ outcome = "InsufficientSpace" /\ otaPc = "delay"

\* C3: in a cycle whose version check returned the token R, a firmware
\* download request is made if and only if R without its surrounding
\* whitespace differs from the current version (exact, case-sensitive); when
\* they are equal there is no download request and no flash operation.
C3_UpdateIffVersionDiffers ==
    vCode = HTTP_CODE_OK =>
       /\ fwRequests > 0 <=> ~ IsTrimOf(currentVersion, versionBody)
       /\ IsTrimOf(currentVersion, versionBody) =>
             /\ fwRequests = 0 /\ calls = <<>> /\ flashWrites = 0
             /\ outcome = "UpToDate"

C3_Witness ==
    /\ vCode = HTTP_CODE_OK
    /\ versionBody # currentVersion
    /\ IsTrimOf(currentVersion, versionBody)
    /\ fwRequests = 0 /\ outcome = "UpToDate" /\ otaPc = "delay"

\* C4: when the version endpoint answers OK with a body that is empty after
\* trimming, the cycle is CheckFailed: no firmware download is started and no
\* flash operation occurs.
C4_EmptyBodyIsCheckFailed ==
    (vCode = HTTP_CODE_OK /\ IsTrimOf(<<>>, versionBody)) =>
       /\ fwRequests = 0 /\ calls = <<>>
       /\ outcome = "CheckFailed"

\* C5: if the firmware GET returns a status other than OK, or OK with a size
\* that is zero or unknown, the session ends DownloadFailed before any flash
\* operation: begin, writeStream and end are not called and there is no
\* restart.
C5_DownloadFailedBeforeFlash ==
    (fCode # 0 /\ (fCode # HTTP_CODE_OK \/ contentLength <= 0)) =>
       /\ outcome = "DownloadFailed"
       /\ calls = <<>> /\ beginResult = "none" /\ flashWrites = 0
       /\ restartCount = 0
       /\ Idle

C5_Witness ==
    /\ fCode = HTTP_CODE_OK /\ contentLength = -1
    /\ outcome = "DownloadFailed" /\ otaPc = "delay"

\* C6: in a session where writeStream wrote fewer bytes than the declared
\* size, finalize does not report success and there is no restart: the session
\* ends FinalizeFailed and the task is back at Idle.
C6_ShortWriteNeverRestarts ==
    (InCalls("end") /\ written < contentLength) =>
       /\ endResult = "fail"
       /\ restartCount = 0
       /\ outcome = "FinalizeFailed"
       /\ Idle

C6_Witness ==
    /\ InCalls("end") /\ written < contentLength
    /\ outcome = "FinalizeFailed" /\ otaPc = "delay"

\* C7: two update cycles never run concurrently: at most one task and one
\* session exist, and a version check begins only when the previous cycle has
\* finished all its steps and its inter-cycle delay (or never, after a
\* restart).
C7_OneCycleAtATime ==
    /\ [](activeCycles <= 1 /\ otaTasks <= 1)
    /\ [][(otaPc' = "v_get" /\ otaPc # "v_get") =>
            /\ otaPc = "check" /\ activeCycles = 0
            /\ ~ vConn /\ ~ fConn /\ ~ restarted]_vars

C7_Witness ==
    otaPc = "v_get" /\ activeCycles = 1 /\ outcome = "InsufficientSpace"

\* C8: whenever a cycle has ended in a non-terminal outcome and none is
\* running, the task, under fairness, begins another version check: no error
\* outcome ends the loop.
C8_SchedulerResumes ==
    (activeCycles = 0 /\ outcome \in NonTerminalOutcomes)
       ~> (activeCycles = 1 /\ otaPc = "v_get")

C8_Witness ==
    otaPc = "v_get" /\ outcome = "FinalizeFailed" /\ vConn

\* C9: in a session that began, the bytes written to flash never exceed the
\* declared size passed to Update.begin(), also when the stream holds more
\* bytes than declared.
C9_WrittenAtMostDeclared ==
    beginResult = "ok" =>
       /\ updProgress <= contentLength
       /\ flashWrites <= contentLength
       /\ written <= contentLength

C9_Witness ==
    /\ otaPc = "writing" /\ beginResult = "ok"
    /\ updProgress = contentLength /\ streamLeft > 0

\* the calls of the cycle that act on flash or restart the device
FlashCalls == SelectSeq(calls, LAMBDA c : c # "isFinished")

\* C10: if the remote token differs, the binary endpoint returns OK with a
\* positive size S, begin(S) succeeds and finalize succeeds, the cycle went
\* begin -> writeStream (returning S) -> end -> restart, with one restart.
C10_SuccessfulUpdateOrder ==
    ( /\ vCode = HTTP_CODE_OK /\ ~ IsTrimOf(currentVersion, versionBody)
      /\ fCode = HTTP_CODE_OK /\ contentLength > 0
      /\ beginResult = "ok" /\ FinalizeSucceeded ) =>
       /\ FlashCalls = <<"begin", "writeStream", "end", "restart">>
       /\ written = contentLength
       /\ restartCount = 1

C10_Witness ==
    /\ FinalizeSucceeded /\ restartCount = 1
    /\ written = contentLength /\ contentLength = FlashCapacity

\* C11: when the full stream was written and finalize does not report a
\* finished update, in whichever way, the session ends FinalizeFailed without
\* a restart and Update.getError() has been logged.
C11_FinalizeFailureLogsCode ==
    (InCalls("end") /\ written = contentLength /\ ~ FinalizeSucceeded) =>
       /\ outcome = "FinalizeFailed"
       /\ restartCount = 0
       /\ errorLogged

\* C12: when the version GET returns a non-OK status or a transport error the
\* cycle ends CheckFailed: no firmware request, no flash operation, and the
\* task is at the inter-cycle wait with the version connection closed.
C12_CheckFailedEndsCycle ==
    (vCode # 0 /\ vCode # HTTP_CODE_OK) =>
       /\ outcome = "CheckFailed"
       /\ fwRequests = 0 /\ ~ fConn
       /\ calls = <<>> /\ flashWrites = 0
       /\ Idle /\ ~ vConn

C12_Witness ==
    vCode = -1 /\ outcome = "CheckFailed" /\ otaPc = "delay" /\ fwRequests = 0

\* C13: once ESP.restart() has been invoked no context takes a further step:
\* no connection close, no delay, no version check, no blink.
C13_RebootIsTerminal == [][~ restarted]_vars

C13_Witness ==
    restarted /\ otaPc = "rebooted" /\ fConn /\ mainPc = "loop_low"

\* C14: the OTA task exists, and a version check, download or flash operation
\* has happened, only if WiFi.status() has reported WL_CONNECTED in setup().
C14_NoCycleBeforeLink ==
    /\ (otaTasks > 0 \/ otaPc # "none") => wifi
    /\ ~ wifi =>
          /\ mainPc = "setup_wait"
          /\ activeCycles = 0 /\ vCode = 0 /\ ~ vConn /\ ~ fConn
          /\ fwRequests = 0 /\ calls = <<>> /\ flashWrites = 0

C14_Witness ==
    wifi /\ otaTasks = 1 /\ otaPc = "v_get" /\ outcome = "none"

\* everything but the position of loop() and the LED
allButLed ==
    <<currentVersion, wifi, otaTasks, otaPc, activeCycles, outcome, versionVars,
      connVars, fwVars, updVars, restartCount, waited>>

\* C15: a step of loop() changes only the LED; every HTTP request and every
\* Update call is a step of the update task.
C15_LoopTouchesOnlyLed ==
    [][(mainPc \in {"loop_high", "loop_low"} /\ mainPc' # mainPc) =>
          UNCHANGED allButLed]_vars

C15_Witness ==
    mainPc = "loop_low" /\ led = "HIGH" /\ otaPc = "writing" /\ updProgress > 0

\* C16: when writeStream returned fewer bytes than the declared size,
\* Update.end() has still been called, once, after the write.
C16_ShortWriteStillFinalizes ==
    (InCalls("writeStream") /\ otaPc # "writing" /\ written < contentLength) =>
       /\ Len(SelectSeq(calls, LAMBDA c : c = "end")) = 1
       /\ \E i \in 1..Len(calls) :
             calls[i] = "writeStream" /\ i < Len(calls) /\ calls[i + 1] = "end"

C16_Witness ==
    /\ InCalls("writeStream") /\ otaPc = "delay"
    /\ written > 0 /\ written < contentLength /\ endResult = "fail"

\* the update task waits on a GET or on the flash stream write
OtaBlocked == otaPc \in {"v_get", "f_get", "writing"}

\* C17: while the update task is blocked in the version GET, the firmware GET
\* or the stream write and no restart has happened, loop(), under fairness,
\* goes on to its next blink step.
C17_LoopRunsWhileOtaBlocked ==
    \A p \in {"loop_high", "loop_low"} :
       (OtaBlocked /\ ~ restarted /\ mainPc = p) ~> (mainPc # p \/ restarted)

C17_Witness ==
    otaPc = "f_get" /\ fConn /\ mainPc = "loop_low" /\ led = "HIGH"

\* C18: every version check but the first is preceded by exactly one delay of
\* updateInterval = 30000 ms, whatever the outcome of the cycle before; the
\* first check is preceded by none.
C18_FixedCadence ==
    /\ otaPc = "delay" => waited = 0
    /\ otaPc \in {"check", "v_get", "f_get", "writing"} =>
          waited = IF outcome = "none" THEN 0 ELSE 30000

C18_Witness ==
    otaPc = "v_get" /\ outcome = "CheckFailed" /\ waited = 30000

\* C19: the version connection and the firmware connection are never open
\* together: the version connection is closed before the firmware one opens.
C19_OneConnectionAtATime ==
    /\ ~ (vConn /\ fConn)
    /\ fwRequests > 0 => vCloses = 1

C19_Witness ==
    otaPc = "f_get" /\ fConn /\ ~ vConn /\ vCloses = 1

====
